---- MODULE Spec2Model ----
(***************************************************************************)
(* Model of the in-browser age/gender inference pipeline.                  *)
(*                                                                         *)
(* MLModelManager (src/src/lib/ml-models.ts) is modelled as a state        *)
(* machine whose steps are the synchronous segments of its async methods:  *)
(* a segment runs from a call or a resumed await up to the next await, the *)
(* return or the throw.  Several loadModels() calls, dispose(), predict()  *)
(* and getLoadingState() interleave at those await points.                 *)
(***************************************************************************)
EXTENDS Integers, Sequences, FiniteSets, TLC

\* ------------------------------------------------------------------ bounds
NumLoaders  == 2   \* loadModels() calls that may be in flight together
MaxCalls    == 2   \* loadModels() calls in one behaviour
MaxPredicts == 1   \* predict() calls in one behaviour
MaxDisposes == 1   \* dispose() calls in one behaviour

Loaders == 1..NumLoaders

\* ------------------------------------------------------------- value space
Null   == "null"          \* JavaScript null (error field)
NoModel == 0              \* JavaScript null (model handle)

\* values a failing step can throw: an Error with a message, an Error with an
\* empty message, or a value that is not an Error
Thrown ==
  { [isError |-> TRUE,  message |-> "boom"],
    [isError |-> TRUE,  message |-> ""],
    [isError |-> FALSE, message |-> "raw"] }

\* reading .predict of a null handle
NullDeref == [isError |-> TRUE, message |-> "Cannot read properties of null"]

\* error instanceof Error ? error.message : 'Failed to load models'
LoadErrorMessage(e) == IF e.isError THEN e.message ELSE "Failed to load models"

\* `Prediction failed: ${error instanceof Error ? error.message : 'Unknown error'}`
PredictionErrorMessage(e) ==
  "Prediction failed: " \o (IF e.isError THEN e.message ELSE "Unknown error")

NotLoadedMessage == "Models not loaded. Call loadModels() first."

\* the state a ModelLoadingState starts in
InitialLoadingState ==
  [isLoading |-> FALSE, isLoaded |-> FALSE, error |-> Null, progress |-> 0]

\* ModelLoader before it is mounted: useState's initial value, no interval
ModelLoaderInit ==
  [mounted |-> FALSE, loadingState |-> InitialLoadingState, interval |-> 0,
   effects |-> 0, completed |-> {}, tick |-> 0]

\* a new ImageProcessor: the constructor creates the canvas, nothing processed
\* no result yet
NoResult == [k |-> "none"]

\* a new ImageProcessor: its canvas holds no drawing
ImageProcessorInit ==
  [calls |-> 0, thrown |-> Null, result |-> NoResult, canvas |-> << >>]

\* no file
NoFile == [size |-> 0, type |-> "none"]

\* the page before a file is selected
UploaderInit ==
  [file |-> NoFile, selected |-> FALSE, accepted |-> FALSE, error |-> Null,
   pc |-> "idle", started |-> {}, isGeneratingPreview |-> FALSE]

\* the handler before a request
ApiInit ==
  [handled |-> FALSE, request |-> [kind |-> "none"],
   response |-> [status |-> 0, success |-> FALSE, error |-> Null]]

\* no prediction computed yet
InferenceInit ==
  [computed |-> FALSE, raw |-> [k |-> "num", n |-> 0, d |-> 1],
   predictedAge |-> [k |-> "num", n |-> 0, d |-> 1], age |-> 0,
   maleProb |-> [k |-> "num", n |-> 0, d |-> 1],
   femaleProb |-> [k |-> "num", n |-> 0, d |-> 1],
   gender |-> "none", genderConfidence |-> [k |-> "num", n |-> 0, d |-> 1]]

NumImages == 3   \* images the user selects, one handleImageSelect call each

Images == 1..NumImages

\* useState<AnalysisState>: no file (0), no prediction (0), no error (0);
\* a prediction or an error is identified by the image whose call produced it
NoAnalysis == [file |-> 0, prediction |-> 0, isProcessing |-> FALSE,
               error |-> 0]

\* the page after mount: no handleImageSelect call made
PageInit == [analysisState |-> NoAnalysis,
             calls |-> [i \in Images |-> "idle"]]

VARIABLES
  ageModel,       \* MLModelManager.ageModel: NoModel or a model handle
  genderModel,    \* MLModelManager.genderModel
  isInitialized,  \* MLModelManager.isInitialized
  loadingState,   \* MLModelManager.loadingState
  pc,             \* per loadModels() call: the await it is suspended at
  result,         \* per loadModels() call slot: how its last call settled
  passes,         \* per loadModels() call: warm-up forward passes completed
  built,          \* per loadModels() call: handles it constructed
  warmupFailed,   \* some load has failed in a warm-up forward pass
  calls,          \* loadModels() calls made so far
  nextHandle,     \* models constructed so far (handles are 1..nextHandle)
  warmed,         \* handles that completed a forward pass
  disposedModels, \* handles whose dispose() was called
  liveTensors,    \* tensors created by loadModels() and not yet disposed
  disposes,       \* dispose() calls made so far
  snap,           \* the observer's latest getLoadingState() snapshot
  snapRef,        \* the object that snapshot is: "copy" or "manager"
  ppc,            \* predict(): the await it is suspended at
  predictResult,  \* predict(): how the last call settled
  predictError,   \* predict(): the message of the error it threw, or Null
  predictTensors, \* predict(): tensors it created and has not disposed
  predictWork,    \* predict(): computations performed by the last call
  predicts,       \* predict() calls made so far
  modelLoader,    \* the ModelLoader component: its state and its interval
  imageProcessor, \* an ImageProcessor: its canvas and its last result
  uploader,       \* the upload flow of the page for the selected file
  api,            \* the POST /api/predict handler: request and response
  inference,      \* predict(): the model outputs and the returned values
  page            \* HomePage: its analysis state and the calls in flight

mgr  == <<ageModel, genderModel, isInitialized, loadingState>>
load == <<pc, result, passes, built, warmupFailed, calls, nextHandle, warmed,
         liveTensors>>
pred == <<ppc, predictResult, predictError, predictTensors, predictWork,
         predicts>>
\* the state outside MLModelManager
\* the state of the pure parts
pure == <<imageProcessor, uploader, api, inference, page>>
ext  == <<modelLoader, pure>>
vars == <<ageModel, genderModel, isInitialized, loadingState, pc, result,
          passes, built, warmupFailed, calls, nextHandle, warmed,
          disposedModels, liveTensors, disposes, snap, snapRef, ppc,
          predictResult,
          predictError, predictTensors, predictWork, predicts, modelLoader,
          imageProcessor, uploader, api, inference, page>>

Init ==
  /\ ageModel = NoModel
  /\ genderModel = NoModel
  /\ isInitialized = FALSE
  /\ loadingState = InitialLoadingState
  /\ pc = [t \in Loaders |-> "idle"]
  /\ result = [t \in Loaders |-> "none"]
  /\ passes = [t \in Loaders |-> {}]
  /\ built = [t \in Loaders |-> {}]
  /\ warmupFailed = FALSE
  /\ calls = 0
  /\ nextHandle = 0
  /\ warmed = {}
  /\ disposedModels = {}
  /\ liveTensors = 0
  /\ disposes = 0
  /\ snap = InitialLoadingState
  /\ snapRef = "copy"
  /\ ppc = "idle"
  /\ predictResult = "none"
  /\ predictError = Null
  /\ predictTensors = {}
  /\ predictWork = {}
  /\ predicts = 0
  /\ modelLoader = ModelLoaderInit
  /\ imageProcessor = ImageProcessorInit
  /\ uploader = UploaderInit
  /\ api = ApiInit
  /\ inference = InferenceInit
  /\ page = PageInit

\* ------------------------------------------------------------ loadModels()

\* catch (error) { loadingState.error = ... } finally { isLoading = false }
\* applied to the loading state ls the try block had reached
LoadCatch(ls, e) ==
  [ls EXCEPT !.error = LoadErrorMessage(e), !.isLoading = FALSE]

\* the call of slot t settles after the catch/finally blocks
LoadFailed(t, ls, e) ==
  /\ loadingState' = LoadCatch(ls, e)
  /\ pc' = [pc EXCEPT ![t] = "idle"]
  /\ result' = [result EXCEPT ![t] = "failed"]

\* loadModels() lines 32-40: the guard, the reset of the loading state and the
\* call of tf.ready(), up to the first await
loadModels(t) ==
  /\ pc[t] = "idle"
  /\ calls < MaxCalls
  /\ calls' = calls + 1
  /\ passes' = [passes EXCEPT ![t] = {}]
  /\ built' = [built EXCEPT ![t] = {}]
  /\ IF isInitialized
       THEN /\ result' = [result EXCEPT ![t] = "returned"]
            /\ UNCHANGED <<loadingState, pc>>
       ELSE /\ loadingState' = [loadingState EXCEPT !.isLoading = TRUE,
                                                    !.error = Null,
                                                    !.progress = 0]
            /\ pc' = [pc EXCEPT ![t] = "awaitReady"]
            /\ result' = [result EXCEPT ![t] = "pending"]
  /\ UNCHANGED <<ageModel, genderModel, isInitialized, nextHandle, warmed,
                 warmupFailed, disposedModels, liveTensors, disposes, snap,
                 snapRef>>
  /\ UNCHANGED pred

\* a loadModels() call from anywhere but the ModelLoader effect
LoadStart(t) ==
  /\ loadModels(t)
  /\ UNCHANGED ext

\* loadModels() lines 40-53: resumed after tf.ready(), constructs both models,
\* allocates the warm-up input and runs the age model's warm-up pass, up to
\* the second await.  Each step of the segment may throw.
LoadAfterReady(t) ==
  /\ pc[t] = "awaitReady"
  /\ \E outcome \in {"readyFail", "ageCtorFail", "genderCtorFail",
                     "zerosFail", "ageWarmFail", "ok"}, e \in Thrown :
       LET a == nextHandle + 1
           g == nextHandle + 2
       IN
       CASE outcome = "readyFail" ->
              /\ LoadFailed(t, loadingState, e)
              /\ UNCHANGED <<ageModel, genderModel, nextHandle, warmed,
                             liveTensors, passes, built, warmupFailed>>
         [] outcome = "ageCtorFail" ->
              /\ LoadFailed(t, [loadingState EXCEPT !.progress = 20], e)
              /\ UNCHANGED <<ageModel, genderModel, nextHandle, warmed,
                             liveTensors, passes, built, warmupFailed>>
         [] outcome = "genderCtorFail" ->
              /\ ageModel' = a
              /\ nextHandle' = a
              /\ built' = [built EXCEPT ![t] = {a}]
              /\ LoadFailed(t, [loadingState EXCEPT !.progress = 60], e)
              /\ UNCHANGED <<genderModel, warmed, liveTensors, passes,
                             warmupFailed>>
         [] outcome = "zerosFail" ->
              /\ ageModel' = a
              /\ genderModel' = g
              /\ nextHandle' = g
              /\ built' = [built EXCEPT ![t] = {a, g}]
              /\ LoadFailed(t, [loadingState EXCEPT !.progress = 90], e)
              /\ UNCHANGED <<warmed, liveTensors, passes, warmupFailed>>
         [] outcome = "ageWarmFail" ->
              /\ ageModel' = a
              /\ genderModel' = g
              /\ nextHandle' = g
              /\ built' = [built EXCEPT ![t] = {a, g}]
              /\ liveTensors' = liveTensors + 1            \* dummyInput
              /\ warmupFailed' = TRUE
              /\ LoadFailed(t, [loadingState EXCEPT !.progress = 90], e)
              /\ UNCHANGED <<warmed, passes>>
         [] OTHER ->
              /\ ageModel' = a
              /\ genderModel' = g
              /\ nextHandle' = g
              /\ built' = [built EXCEPT ![t] = {a, g}]
              /\ liveTensors' = liveTensors + 2  \* dummyInput, age output
              /\ warmed' = warmed \cup {a}
              /\ passes' = [passes EXCEPT ![t] = @ \cup {"age"}]
              /\ loadingState' = [loadingState EXCEPT !.progress = 90]
              /\ pc' = [pc EXCEPT ![t] = "awaitAge"]
              /\ UNCHANGED <<result, warmupFailed>>
  /\ UNCHANGED <<isInitialized, calls, disposedModels, disposes, snap,
                 snapRef>>
  /\ UNCHANGED pred
  /\ UNCHANGED ext

\* loadModels() line 54 written as a second age warm-up: the gender model is
\* never run
LoadAfterAgeWarm_WarmsAgeTwice(t) ==
  /\ pc[t] = "awaitAge"
  /\ IF ageModel = NoModel
       THEN /\ LoadFailed(t, loadingState, NullDeref)
            /\ warmupFailed' = TRUE
            /\ UNCHANGED <<warmed, liveTensors, passes>>
       ELSE \/ \E e \in Thrown :
                 /\ LoadFailed(t, loadingState, e)
                 /\ warmupFailed' = TRUE
                 /\ UNCHANGED <<warmed, liveTensors, passes>>
            \/ /\ warmed' = warmed \cup {ageModel}
               /\ passes' = [passes EXCEPT ![t] = @ \cup {"age"}]
               /\ liveTensors' = liveTensors + 1
               /\ pc' = [pc EXCEPT ![t] = "awaitGender"]
               /\ UNCHANGED <<loadingState, result, warmupFailed>>
  /\ UNCHANGED <<ageModel, genderModel, isInitialized, built, calls,
                 nextHandle, disposedModels, disposes, snap,
                 snapRef>>
  /\ UNCHANGED pred
  /\ UNCHANGED ext

\* loadModels() line 54: resumed after the age warm-up, runs the gender
\* model's warm-up pass on whatever this.genderModel holds now
LoadAfterAgeWarm(t) ==
  /\ pc[t] = "awaitAge"
  /\ IF genderModel = NoModel
       THEN /\ LoadFailed(t, loadingState, NullDeref)
            /\ warmupFailed' = TRUE
            /\ UNCHANGED <<warmed, liveTensors, passes>>
       ELSE \/ \E e \in Thrown :
                 /\ LoadFailed(t, loadingState, e)
                 /\ warmupFailed' = TRUE
                 /\ UNCHANGED <<warmed, liveTensors, passes>>
            \/ /\ warmed' = warmed \cup {genderModel}
               /\ passes' = [passes EXCEPT ![t] = @ \cup {"gender"}]
               /\ liveTensors' = liveTensors + 1           \* gender output
               /\ pc' = [pc EXCEPT ![t] = "awaitGender"]
               /\ UNCHANGED <<loadingState, result, warmupFailed>>
  /\ UNCHANGED <<ageModel, genderModel, isInitialized, built, calls,
                 nextHandle, disposedModels, disposes, snap,
                 snapRef>>
  /\ UNCHANGED pred
  /\ UNCHANGED ext

\* loadModels() lines 55-59 and 64: resumed after the gender warm-up, releases
\* the warm-up input and publishes Ready
LoadAfterGenderWarm(t) ==
  /\ pc[t] = "awaitGender"
  /\ liveTensors' = liveTensors - 1                        \* dummyInput
  /\ loadingState' = [loadingState EXCEPT !.progress = 100,
                                          !.isLoaded = TRUE,
                                          !.isLoading = FALSE]
  /\ isInitialized' = TRUE
  /\ pc' = [pc EXCEPT ![t] = "idle"]
  /\ result' = [result EXCEPT ![t] = "loaded"]
  /\ UNCHANGED <<ageModel, genderModel, passes, built, warmupFailed, calls,
                 nextHandle, warmed, disposedModels, disposes, snap,
                 snapRef>>
  /\ UNCHANGED pred
  /\ UNCHANGED ext

\* ---------------------------------------------------------------- dispose()
Dispose ==
  /\ disposes < MaxDisposes
  /\ disposes' = disposes + 1
  /\ disposedModels' = disposedModels \cup ({ageModel, genderModel} \ {NoModel})
  /\ ageModel' = NoModel
  /\ genderModel' = NoModel
  /\ isInitialized' = FALSE
  /\ UNCHANGED <<loadingState, snap,
                 snapRef>>
  /\ UNCHANGED load
  /\ UNCHANGED pred
  /\ UNCHANGED ext

\* -------------------------------------------------------- getLoadingState()
\* the method returning the manager's own object instead of a copy
getLoadingState_Alias == [object |-> "manager", value |-> loadingState]

\* return { ...this.loadingState }: a new object with the same field values
\* (all four fields are primitives)
getLoadingState == [object |-> "copy", value |-> loadingState]

\* what the observer reads in the snapshot it holds
ObserverSnapshot == IF snapRef = "manager" THEN loadingState ELSE snap

\* an observer calls getLoadingState() and keeps what it returns
Observe ==
  /\ LET r == getLoadingState
     IN  /\ snap' = r.value
         /\ snapRef' = r.object
  /\ snap' # snap
  /\ UNCHANGED mgr
  /\ UNCHANGED load
  /\ UNCHANGED <<disposedModels, disposes>>
  /\ UNCHANGED pred
  /\ UNCHANGED ext

\* an observer assigns to a field of the snapshot it holds
ObserverWrite ==
  /\ \E v \in {0, 100}, b \in BOOLEAN :
       LET written(o) == [o EXCEPT !.progress = v, !.isLoaded = b]
       IN  IF snapRef = "manager"
             THEN /\ loadingState' = written(loadingState)
                  /\ UNCHANGED snap
             ELSE /\ snap' = written(snap)
                  /\ UNCHANGED loadingState
  /\ UNCHANGED <<ageModel, genderModel, isInitialized, snapRef>>
  /\ UNCHANGED load
  /\ UNCHANGED <<disposedModels, disposes>>
  /\ UNCHANGED pred
  /\ UNCHANGED ext
  /\ ObserverSnapshot' # ObserverSnapshot

\* ------------------------------------------------------------- ModelLoader
\* JavaScript truthiness of the values the poll tick tests
TruthyError(e) == e # Null /\ e # ""

\* ModelLoader.tsx lines 22-43 and 58-62: the effect runs (on mount, or again
\* when onLoadComplete changes, after the cleanup of the previous run): it
\* marks the component state as loading, calls loadModels() and starts a new
\* interval.  loadModels() never rejects, so the catch block of
\* initializeModels is not reachable.
EffectRun(t) ==
  /\ loadModels(t)
  /\ modelLoader' =
       [modelLoader EXCEPT
          !.mounted = TRUE,
          !.loadingState = [@ EXCEPT !.isLoading = TRUE, !.error = Null],
          !.effects = @ + 1,
          !.interval = modelLoader.effects + 1]
  /\ UNCHANGED pure

\* ModelLoader.tsx lines 33-41: one tick of the interval of the current effect
PollTick ==
  /\ modelLoader.interval # 0
  /\ LET currentState == getLoadingState.value
     IN  modelLoader' =
           IF currentState.isLoaded \/ TruthyError(currentState.error)
             THEN [modelLoader EXCEPT
                     !.loadingState = currentState,
                     !.tick = 1 - @,
                     !.interval = 0,
                     !.completed = @ \cup {[effect |-> modelLoader.interval,
                                            success |-> currentState.isLoaded]}]
             ELSE [modelLoader EXCEPT
                     !.loadingState = currentState,
                     !.tick = 1 - @]
  /\ UNCHANGED <<mgr, load, pred, disposedModels, disposes, snap,
                 snapRef>>
  /\ UNCHANGED pure

\* ModelLoader.tsx lines 58-62: the cleanup when the component unmounts
Unmount ==
  /\ modelLoader.mounted
  /\ modelLoader' = [modelLoader EXCEPT !.mounted = FALSE, !.interval = 0]
  /\ UNCHANGED <<mgr, load, pred, disposedModels, disposes, snap,
                 snapRef>>
  /\ UNCHANGED pure

\* ----------------------------------------------------------- ImageProcessor
MaxDim == 12   \* image widths and heights range over 0..MaxDim (and samples)
MaxImageCalls == 2   \* processImageElement calls on one ImageProcessor

\* widths and heights of the images handed to processImageElement
Dims == (0..MaxDim) \cup {200, 400}

\* const targetSize = 224
targetSize == 224

\* JavaScript numbers, as far as processImageElement needs them: an exact
\* fraction n/d (d > 0, in lowest terms), +Infinity or NaN.  Rounding of the
\* double-precision arithmetic (at most one unit in the last place) is not
\* modelled.
RECURSIVE GCD(_, _)
GCD(a, b) == IF b = 0 THEN a ELSE GCD(b, a % b)

Abs(n) == IF n < 0 THEN -n ELSE n

Num(n, d) ==
  LET g == GCD(Abs(n), d)
  IN  [k |-> "num", n |-> n \div g, d |-> d \div g]

Infinity == [k |-> "inf"]
NaN      == [k |-> "nan"]

\* a / b for integers a > 0, b >= 0
IntDiv(a, b) == IF b = 0 THEN Infinity ELSE Num(a, b)

\* Math.min(x, y) for finite or +Infinity x, y
MathMin(x, y) ==
  IF x.k = "inf" THEN y
  ELSE IF y.k = "inf" THEN x
  ELSE IF x.n * y.d <= y.n * x.d THEN x ELSE y

\* Math.max(x, y) for finite or +Infinity x, y
MathMax(x, y) ==
  IF x.k = "inf" \/ y.k = "inf" THEN Infinity
  ELSE IF x.n * y.d >= y.n * x.d THEN x ELSE y

\* a * x for an integer a >= 0
IntMul(a, x) ==
  IF x.k = "inf" THEN (IF a = 0 THEN NaN ELSE Infinity)
  ELSE Num(a * x.n, x.d)

\* (a - x) / 2 for an integer a and a finite or NaN x
HalfDiff(a, x) ==
  IF x.k # "num" THEN NaN ELSE Num(a * x.d - x.n, 2 * x.d)

\* the scale computed with Math.max instead of Math.min
Scale_Max(w, h) == MathMax(IntDiv(targetSize, w), IntDiv(targetSize, h))

\* line 68: Math.min(targetSize / originalWidth, targetSize / originalHeight)
Scale(w, h) == MathMin(IntDiv(targetSize, w), IntDiv(targetSize, h))

\* a canvas into which nothing was drawn
NothingDrawn == [k |-> "nothing"]

\* ctx.drawImage(img, dx, dy, dw, dh) on a cleared canvas: nothing is drawn
\* when an argument is not finite, when the image has a zero dimension or when
\* the destination is empty; no error is thrown for an HTMLImageElement
DrawImage(w, h, dx, dy, dw, dh) ==
  IF \/ dx.k # "num" \/ dy.k # "num" \/ dw.k # "num" \/ dh.k # "num"
     \/ w = 0 \/ h = 0
     \/ dw.n = 0 \/ dh.n = 0
    THEN NothingDrawn
    ELSE [x |-> dx, y |-> dy, width |-> dw, height |-> dh]

\* The bitmap of the canvas is the sequence of the drawings on it, oldest
\* first; an image is identified by its size.
\* lines 61-62: assigning canvas.width or canvas.height resets the bitmap
SetCanvasSize(bitmap) == << >>

\* line 65: clearRect over the whole canvas erases every drawing
clearRect(bitmap) == << >>

\* the bitmap left as the earlier calls made it
ClearedCanvas_Kept == imageProcessor.canvas

\* lines 61-65: the bitmap of this processor's canvas before drawImage
ClearedCanvas == clearRect(SetCanvasSize(imageProcessor.canvas))

\* processImageElement, lines 55-87, for an image of w x h: the ImageData is
\* the 224x224 canvas, reset to transparent (lines 61-65), with the image
\* drawn into it, over whatever the bitmap still held (beneath)
processImageElement(w, h) ==
  LET scale        == Scale(w, h)
      scaledWidth  == IntMul(w, scale)
      scaledHeight == IntMul(h, scale)
      offsetX      == HalfDiff(targetSize, scaledWidth)
      offsetY      == HalfDiff(targetSize, scaledHeight)
  IN  [imageData |-> [width |-> targetSize, height |-> targetSize,
                      background |-> "transparent",
                      beneath |-> ClearedCanvas,
                      drawn |-> DrawImage(w, h, offsetX, offsetY,
                                          scaledWidth, scaledHeight)],
       originalWidth |-> w,
       originalHeight |-> h]

\* the bitmap after the drawImage of a call
BitmapOf(r) ==
  IF r.imageData.drawn = NothingDrawn
    THEN r.imageData.beneath
    ELSE Append(r.imageData.beneath,
                [image |-> <<r.originalWidth, r.originalHeight>>,
                 rect |-> r.imageData.drawn])

\* a call of processImageElement on an image of any size
ProcessImageElement ==
  /\ imageProcessor.calls < MaxImageCalls
  /\ \E w, h \in Dims :
       LET r == processImageElement(w, h)
       IN  imageProcessor' = [calls |-> imageProcessor.calls + 1,
                              thrown |-> Null,
                              result |-> r,
                              canvas |-> BitmapOf(r)]
  /\ UNCHANGED <<mgr, load, pred, disposedModels, disposes, snap,
                 snapRef>>
  /\ UNCHANGED <<modelLoader, uploader, api, inference, page>>

\* ------------------------------------------------------------- upload flow
\* isValidFileSize: maxSizeMB = 10
maxSizeMB == 10

\* const maxSizeBytes = maxSizeMB * 1024 * 1024
maxSizeBytes == maxSizeMB * 1024 * 1024

\* sizes and content types of the files a user selects
FileSizes == {0, 1, maxSizeBytes - 1, maxSizeBytes, maxSizeBytes + 1,
              11 * 1024 * 1024}
FileTypes == {"image/jpeg", "image/jpg", "image/png", "image/webp",
              "IMAGE/PNG", "Image/Jpeg", "image/gif", "text/plain", ""}
Files == [size : FileSizes, type : FileTypes]

\* String.prototype.toLowerCase on the content types above
toLowerCase(t) ==
  CASE t = "IMAGE/PNG"  -> "image/png"
    [] t = "Image/Jpeg" -> "image/jpeg"
    [] OTHER            -> t

\* const validTypes = ['image/jpeg', 'image/jpg', 'image/png', 'image/webp']
validTypes == {"image/jpeg", "image/jpg", "image/png", "image/webp"}

\* the size check written with < instead of <=
isValidFileSize_Strict(file) == file.size < maxSizeBytes

\* ImageProcessor.isValidFileSize, lines 162-165
isValidFileSize(file) == file.size <= maxSizeBytes

\* validateImageFile, lines 182-199
validateImageFile(file) ==
  IF ~isValidFileSize(file)
    THEN [isValid |-> FALSE, error |-> "File size too large"]
    ELSE IF toLowerCase(file.type) \notin validTypes
      THEN [isValid |-> FALSE, error |-> "Invalid file format"]
      ELSE [isValid |-> TRUE, error |-> Null]

\* ImageProcessor.isValidImageFile, lines 141-144
isValidImageFile(file) == toLowerCase(file.type) \in validTypes

\* ImageUploader.handleFileSelection, lines 53-68: validation, then the start
\* of the preview, up to its await.  One file is followed at a time.
HandleFileSelection ==
  /\ uploader.pc = "idle"
  /\ \E file \in Files :
       LET validation == validateImageFile(file)
       IN  uploader' =
             IF ~validation.isValid
               THEN [UploaderInit EXCEPT
                       !.file = file, !.selected = TRUE,
                       !.error = validation.error]
               ELSE [UploaderInit EXCEPT
                       !.file = file, !.selected = TRUE, !.accepted = TRUE,
                       !.isGeneratingPreview = TRUE,
                       !.started = {"createPreviewCanvas"},
                       !.pc = "preview"]
  /\ UNCHANGED <<mgr, load, pred, disposedModels, disposes, snap,
                 snapRef>>
  /\ UNCHANGED <<modelLoader, imageProcessor, api, inference, page>>

\* ImageUploader.handleFileSelection, lines 68-79, and the start of
\* HomePage.handleImageSelect, route.ts lines 258-271: the preview settles;
\* when it resolves, onImageSelect starts processImageFile
PreviewSettles ==
  /\ uploader.pc = "preview"
  /\ \/ uploader' = [uploader EXCEPT
                       !.error = "Failed to load image for preview",
                       !.isGeneratingPreview = FALSE,
                       !.pc = "idle"]
     \/ uploader' = [uploader EXCEPT
                       !.isGeneratingPreview = FALSE,
                       !.started = @ \cup {"processImageFile"},
                       !.pc = "processing"]
  /\ UNCHANGED <<mgr, load, pred, disposedModels, disposes, snap,
                 snapRef>>
  /\ UNCHANGED <<modelLoader, imageProcessor, api, inference, page>>

\* HomePage.handleImageSelect, route.ts lines 271-274 and 284-290:
\* processImageFile settles; when it resolves, predict is called
ProcessSettles ==
  /\ uploader.pc = "processing"
  /\ \/ /\ ~isValidImageFile(uploader.file)
        /\ uploader' = [uploader EXCEPT !.error = "Invalid image file format",
                                        !.pc = "idle"]
     \/ /\ isValidImageFile(uploader.file)
        /\ uploader' = [uploader EXCEPT !.error = "Failed to load image",
                                        !.pc = "idle"]
     \/ /\ isValidImageFile(uploader.file)
        /\ uploader' = [uploader EXCEPT !.started = @ \cup {"predict"},
                                        !.pc = "predicting"]
  /\ UNCHANGED <<mgr, load, pred, disposedModels, disposes, snap,
                 snapRef>>
  /\ UNCHANGED <<modelLoader, imageProcessor, api, inference, page>>

\* HomePage.handleImageSelect, route.ts lines 274-290: predict settles
PredictSettles ==
  /\ uploader.pc = "predicting"
  /\ \/ uploader' = [uploader EXCEPT !.error = "Prediction failed",
                                     !.pc = "idle"]
     \/ uploader' = [uploader EXCEPT !.pc = "idle"]
  /\ UNCHANGED <<mgr, load, pred, disposedModels, disposes, snap,
                 snapRef>>
  /\ UNCHANGED <<modelLoader, imageProcessor, api, inference, page>>

\* ------------------------------------------------------- POST /api/predict
\* the leading bytes of the uploaded files (at most the first twelve)
Headers ==
  { <<137, 80, 78, 71, 13, 10, 26, 10, 0, 0, 0, 13>>,     \* PNG
    <<255, 216, 255, 224, 0, 16, 74, 70, 73, 70, 0, 1>>,  \* JPEG
    <<82, 73, 70, 70, 36, 0, 0, 0, 87, 69, 66, 80>>,      \* RIFF....WEBP
    <<0, 0, 0, 0, 0, 0, 0, 0, 87, 69, 66, 80>>,           \* WEBP, no RIFF
    <<82, 73, 70, 70, 36, 0, 0, 0, 87, 65, 86, 69>>,      \* RIFF....WAVE
    <<71, 73, 70, 56, 57, 97, 1, 0, 1, 0, 0, 0>>,         \* GIF
    <<0, 0, 0, 0, 0, 0, 0, 0, 0, 0, 0, 0>>,
    <<137, 80, 78>>,                                      \* a 3-byte file
    <<255, 216, 255>>,
    << >> }                                               \* an empty file

\* the sizes a file with the given leading bytes can have
SizesOf(header) ==
  IF Len(header) < 12 THEN {Len(header)}
  ELSE {Len(header), maxSizeBytes, maxSizeBytes + 1}

\* the requests: a body that is no form data, a form without the image
\* field, a form whose image field is text, and a form with a file
Requests ==
  {[kind |-> "unparsable"], [kind |-> "missing"]}
  \cup {[kind |-> "text", value |-> v] : v \in {"", "x"}}
  \cup UNION {[kind : {"file"}, size : SizesOf(h), type : FileTypes,
               bytes : {h}] : h \in Headers}

\* uint8Array[i]: undefined beyond the end of the buffer
Undefined == -1
ByteAt(uint8Array, i) ==
  IF i + 1 <= Len(uint8Array) THEN uint8Array[i + 1] ELSE Undefined

\* processImage, lines 55-57
isPNG(b) ==
  /\ ByteAt(b, 0) = 137 /\ ByteAt(b, 1) = 80
  /\ ByteAt(b, 2) = 78 /\ ByteAt(b, 3) = 71
isJPEG(b) == ByteAt(b, 0) = 255 /\ ByteAt(b, 1) = 216 /\ ByteAt(b, 2) = 255
isWebP(b) ==
  /\ ByteAt(b, 8) = 87 /\ ByteAt(b, 9) = 69
  /\ ByteAt(b, 10) = 66 /\ ByteAt(b, 11) = 80

\* processImage, lines 49-67: Null when it returns, else the thrown message
processImage(b) ==
  IF ~isPNG(b) /\ ~isJPEG(b) /\ ~isWebP(b)
    THEN "Image processing failed: Invalid image format"
    ELSE Null

\* validateImage, lines 72-94
validateImage(file) ==
  IF file.size > maxSizeBytes
    THEN [isValid |-> FALSE, error |-> "File size too large"]
    ELSE IF toLowerCase(file.type) \notin validTypes
      THEN [isValid |-> FALSE, error |-> "Invalid file format"]
      ELSE [isValid |-> TRUE, error |-> Null]

Response(status, success, error) ==
  [status |-> status, success |-> success, error |-> error]

\* POST, lines 96-152: the response to a request
POST(request) ==
  CASE request.kind = "unparsable" ->
         \* request.formData() rejects: catch
         Response(500, FALSE, "Failed to parse body as FormData")
    [] request.kind = "missing" ->
         Response(400, FALSE, "No image file provided")
    [] request.kind = "text" ->
         IF request.value = ""
           THEN Response(400, FALSE, "No image file provided")
           \* a string has no type: file.type.toLowerCase() throws
           ELSE Response(500, FALSE, "Cannot read properties of undefined")
    [] request.kind = "file" ->
         LET validation == validateImage(request)
             failed == processImage(request.bytes)
         IN  IF ~validation.isValid
               THEN Response(400, FALSE, validation.error)
               ELSE IF failed # Null
                 THEN Response(500, FALSE, failed)
                 ELSE Response(200, TRUE, Null)

\* one request handled
Post ==
  /\ \E request \in Requests :
       api' = [handled |-> TRUE, request |-> request,
               response |-> POST(request)]
  /\ api' # api
  /\ UNCHANGED <<mgr, load, pred, disposedModels, disposes, snap,
                 snapRef>>
  /\ UNCHANGED <<modelLoader, imageProcessor, uploader, inference, page>>

\* ------------------------------------------------------------------ HomePage
\* handleImageSelect, route.ts lines 258-271: called by the ImageUploader,
\* which is rendered while no file is selected; up to the await of
\* processImageFile
HandleImageSelect(i) ==
  /\ page.calls[i] = "idle"
  /\ page.analysisState.file = 0
  /\ page' = [analysisState |-> [page.analysisState EXCEPT
                                   !.file = i, !.prediction = 0,
                                   !.error = 0, !.isProcessing = TRUE],
              calls |-> [page.calls EXCEPT ![i] = "processImageFile"]]
  /\ UNCHANGED <<mgr, load, pred, disposedModels, disposes, snap,
                 snapRef>>
  /\ UNCHANGED <<modelLoader, imageProcessor, uploader, api, inference>>

\* the catch block of handleImageSelect, lines 284-290
AnalysisFailed(i) ==
  page' = [analysisState |-> [page.analysisState EXCEPT
                                !.error = i, !.isProcessing = FALSE],
           calls |-> [page.calls EXCEPT ![i] = "done"]]

\* handleImageSelect, lines 271-274: resumed after processImageFile
ImageProcessed(i) ==
  /\ page.calls[i] = "processImageFile"
  /\ \/ AnalysisFailed(i)
     \/ page' = [page EXCEPT !.calls[i] = "predict"]
  /\ UNCHANGED <<mgr, load, pred, disposedModels, disposes, snap,
                 snapRef>>
  /\ UNCHANGED <<modelLoader, imageProcessor, uploader, api, inference>>

\* handleImageSelect, lines 274-290: resumed after predict
ImagePredicted(i) ==
  /\ page.calls[i] = "predict"
  /\ \/ AnalysisFailed(i)
     \/ page' = [analysisState |-> [page.analysisState EXCEPT
                                      !.prediction = i,
                                      !.isProcessing = FALSE],
                 calls |-> [page.calls EXCEPT ![i] = "done"]]
  /\ UNCHANGED <<mgr, load, pred, disposedModels, disposes, snap,
                 snapRef>>
  /\ UNCHANGED <<modelLoader, imageProcessor, uploader, api, inference>>

\* handleReset, lines 293-301, from the New Analysis button, which is
\* rendered while a file is selected
HandleReset ==
  /\ page.analysisState.file # 0
  /\ page' = [page EXCEPT !.analysisState = NoAnalysis]
  /\ UNCHANGED <<mgr, load, pred, disposedModels, disposes, snap,
                 snapRef>>
  /\ UNCHANGED <<modelLoader, imageProcessor, uploader, api, inference>>

\* ---------------------------------------------------------------- predict()
\* the readiness check of predict(), line 133
PredictReady ==
  isInitialized /\ ageModel # NoModel /\ genderModel # NoModel

\* catch (error) { preprocessedImage.dispose(); throw new Error(...) }
PredictCatch(e) ==
  /\ predictTensors' = predictTensors \ {"input"}
  /\ predictResult' = "PredictionError"
  /\ predictError' = PredictionErrorMessage(e)
  /\ ppc' = "idle"

\* predict() lines 133-143: the readiness check, preprocessing and the age
\* model's forward pass, up to the await of its read-back
PredictStart ==
  /\ ppc = "idle"
  /\ predicts < MaxPredicts
  /\ predicts' = predicts + 1
  /\ IF ~PredictReady
       THEN /\ predictResult' = "NotLoadedError"
            /\ predictError' = NotLoadedMessage
            /\ predictWork' = {}
            /\ UNCHANGED <<ppc, predictTensors>>
       ELSE \/ \E e \in Thrown :                \* preprocessImage throws,
               /\ predictResult' = "RawError"   \* outside the try block
               /\ predictError' = e.message
               /\ predictWork' = {"preprocess"}
               /\ UNCHANGED <<ppc, predictTensors>>
            \/ \E e \in Thrown :                \* age pass throws
               /\ predictWork' = {"preprocess", "agePass"}
               /\ predictResult' = "PredictionError"
               /\ predictError' = PredictionErrorMessage(e)
               /\ predictTensors' = predictTensors \ {"input"}
               /\ UNCHANGED ppc
            \/ /\ predictWork' = {"preprocess", "agePass"}
               /\ predictTensors' = predictTensors \cup {"input", "age"}
               /\ predictResult' = "pending"
               /\ predictError' = Null
               /\ ppc' = "awaitAgeData"
  /\ UNCHANGED mgr
  /\ UNCHANGED load
  /\ UNCHANGED <<disposedModels, disposes, snap,
                 snapRef>>
  /\ UNCHANGED ext

\* predict() lines 143-148: resumed with the age read-back, runs the gender
\* model's forward pass, up to the await of its read-back
PredictAfterAgeData ==
  /\ ppc = "awaitAgeData"
  /\ \/ /\ \E e \in Thrown : PredictCatch(e)    \* agePrediction.data() rejects
        /\ UNCHANGED predictWork
     \/ /\ genderModel = NoModel                \* this.genderModel is null
        /\ PredictCatch(NullDeref)
        /\ UNCHANGED predictWork
     \/ /\ genderModel # NoModel                \* gender pass throws
        /\ \E e \in Thrown : PredictCatch(e)
        /\ predictWork' = predictWork \cup {"genderPass"}
     \/ /\ genderModel # NoModel
        /\ predictWork' = predictWork \cup {"genderPass"}
        /\ predictTensors' = predictTensors \cup {"gender"}
        /\ ppc' = "awaitGenderData"
        /\ UNCHANGED <<predictResult, predictError>>
  /\ UNCHANGED predicts
  /\ UNCHANGED mgr
  /\ UNCHANGED load
  /\ UNCHANGED <<disposedModels, disposes, snap,
                 snapRef>>
  /\ UNCHANGED ext

\* predict() lines 148-164: resumed with the gender read-back, disposes the
\* three tensors and returns the prediction
PredictAfterGenderData ==
  /\ ppc = "awaitGenderData"
  /\ \/ \E e \in Thrown : PredictCatch(e)    \* genderPrediction.data() rejects
     \/ /\ predictTensors' = predictTensors \ {"age", "gender", "input"}
        /\ predictResult' = "ok"
        /\ predictError' = Null
        /\ ppc' = "idle"
  /\ UNCHANGED <<predictWork, predicts>>
  /\ UNCHANGED mgr
  /\ UNCHANGED load
  /\ UNCHANGED <<disposedModels, disposes, snap,
                 snapRef>>
  /\ UNCHANGED ext

\* ------------------------------------------------- predict(): the values
RawMax == 200   \* raw age outputs range over -RawMax/RawDen..RawMax/RawDen

\* the resolution of the raw outputs: raw*100 + 25 is a multiple of 1/2
RawDen == 200

\* the values agePrediction.data() may hold: finite numbers
RawOutputs == {Num(k, RawDen) : k \in -RawMax..RawMax}

\* x * 100 + 25 for a finite x
AgeAffine(x) == Num(100 * x.n + 25 * x.d, x.d)

\* rounding down instead of to the nearest integer
MathRound_Floor(x) == x.n \div x.d

\* Math.round(x) for a finite x: floor(x + 0.5)
MathRound(x) == (2 * x.n + x.d) \div (2 * x.d)

\* predict() line 144:
\* Math.max(0, Math.min(100, ageValue[0] * 100 + 25))
PredictedAge(ageValue0) ==
  MathMax(Num(0, 1), MathMin(Num(100, 1), AgeAffine(ageValue0)))

\* the resolution of the gender outputs
ProbDen == 4

\* the values genderPrediction.data() may hold: softmax outputs in 0..1
Probs == {Num(k, ProbDen) : k \in 0..ProbDen}

\* the label chosen with >= instead of >
PredictedGender_GE(maleProb, femaleProb) ==
  IF maleProb.n * femaleProb.d >= femaleProb.n * maleProb.d
    THEN "male" ELSE "female"

\* predict() line 151: maleProb > femaleProb ? 'male' : 'female'
PredictedGender(maleProb, femaleProb) ==
  IF maleProb.n * femaleProb.d > femaleProb.n * maleProb.d
    THEN "male" ELSE "female"

\* predict() lines 143-152 and 159-164: the values returned for the outputs
\* of the two models; one predict() call is followed
ComputePrediction ==
  /\ ~inference.computed
  /\ \E ageValue0 \in RawOutputs, maleProb, femaleProb \in Probs :
       LET predictedAge == PredictedAge(ageValue0)
       IN  inference' = [computed |-> TRUE, raw |-> ageValue0,
                         predictedAge |-> predictedAge,
                         age |-> MathRound(predictedAge),
                         maleProb |-> maleProb,
                         femaleProb |-> femaleProb,
                         gender |-> PredictedGender(maleProb, femaleProb),
                         genderConfidence |-> MathMax(maleProb, femaleProb)]
  /\ UNCHANGED <<mgr, load, pred, disposedModels, disposes, snap,
                 snapRef>>
  /\ UNCHANGED <<modelLoader, imageProcessor, uploader, api, page>>

\* --------------------------------------------------------------------- Next
Next ==
  \/ \E t \in Loaders : LoadStart(t)
  \/ \E t \in Loaders : LoadAfterReady(t)
  \/ \E t \in Loaders : LoadAfterAgeWarm(t)
  \/ \E t \in Loaders : LoadAfterGenderWarm(t)
  \/ Dispose
  \/ Observe
  \/ PredictStart
  \/ PredictAfterAgeData
  \/ PredictAfterGenderData

Spec == Init /\ [][Next]_vars

\* the page as written: ModelLoader drives loadModels() and polls
NextLoader ==
  \/ \E t \in Loaders : EffectRun(t)
  \/ \E t \in Loaders : LoadAfterReady(t)
  \/ \E t \in Loaders : LoadAfterAgeWarm(t)
  \/ \E t \in Loaders : LoadAfterGenderWarm(t)
  \/ PollTick
  \/ Unmount

\* setInterval keeps firing the tick while the interval is set, and a resumed
\* await always runs
SpecLoader ==
  /\ Init
  /\ [][NextLoader]_vars
  /\ WF_vars(PollTick)
  /\ \A t \in Loaders : WF_vars(LoadAfterReady(t) \/ LoadAfterAgeWarm(t)
                                  \/ LoadAfterGenderWarm(t))

\* an ImageProcessor used on its own
NextImage == ProcessImageElement

SpecImage == Init /\ [][NextImage]_vars

\* the manager with an observer that keeps and edits snapshots
NextObserver ==
  \/ \E t \in Loaders : LoadStart(t)
  \/ \E t \in Loaders : LoadAfterReady(t)
  \/ \E t \in Loaders : LoadAfterAgeWarm(t)
  \/ \E t \in Loaders : LoadAfterGenderWarm(t)
  \/ Observe
  \/ ObserverWrite

SpecObserver == Init /\ [][NextObserver]_vars

\* the upload flow on its own
NextUpload ==
  \/ HandleFileSelection
  \/ PreviewSettles
  \/ ProcessSettles
  \/ PredictSettles

SpecUpload == Init /\ [][NextUpload]_vars

\* the API route on its own
NextApi == Post

SpecApi == Init /\ [][NextApi]_vars

\* the value computation of predict() on its own
NextInference == ComputePrediction

SpecInference == Init /\ [][NextInference]_vars

\* the page's analysis state on its own
NextPage ==
  \/ \E i \in Images : HandleImageSelect(i)
  \/ \E i \in Images : ImageProcessed(i)
  \/ \E i \in Images : ImagePredicted(i)
  \/ HandleReset

SpecPage == Init /\ [][NextPage]_vars

TypeOK ==
  /\ ageModel \in 0..nextHandle
  /\ genderModel \in 0..nextHandle
  /\ isInitialized \in BOOLEAN
  /\ loadingState.progress \in {0, 20, 60, 90, 100}
  /\ pc \in [Loaders -> {"idle", "awaitReady", "awaitAge", "awaitGender"}]
  /\ calls \in 0..MaxCalls
  /\ ppc \in {"idle", "awaitAgeData", "awaitGenderData"}

\* ------------------------------------------------------------------ claims

\* a step in which a loadModels() call is made
LoadCalled == calls' = calls + 1

\* a step in which the load of slot t ends in the catch block
LoadFails(t) == result[t] = "pending" /\ result'[t] = "failed"

\* a step in which the load of slot t publishes Ready
LoadSucceeds(t) == result[t] = "pending" /\ result'[t] = "loaded"

\* C1: in every snapshot returned by getLoadingState(), isLoaded and
\* error != null are never both true, and either of them implies that
\* isLoading is false.
C1_TerminalFlagsExclusive ==
  /\ ~(snap.isLoaded /\ snap.error # Null)
  /\ (snap.isLoaded \/ snap.error # Null) => ~snap.isLoading

\* C2: the progress values of successive getLoadingState() snapshots never
\* decrease.
C2_ProgressMonotonic ==
  [][snap'.progress >= snap.progress]_vars

\* C3: in every snapshot returned by getLoadingState(), progress = 100 holds
\* exactly when isLoaded is true.
C3_HundredIffLoaded ==
  (snap.progress = 100) <=> snap.isLoaded

\* C4: a loadModels() call made while isLoading is true is a no-op: it
\* returns at once, leaving the loading state and the model handles as they
\* were and starting no load of its own.
C4_ConcurrentStartIsNoOp ==
  [][(LoadCalled /\ loadingState.isLoading)
       => /\ loadingState' = loadingState
          /\ pc' = pc
          /\ ageModel' = ageModel /\ genderModel' = genderModel]_vars

\* C5: once a load has ended with isLoaded true or with error != null (and no
\* load is in flight), every later loadModels() call leaves the loading state
\* unchanged.
C5_TerminalStatesAbsorb ==
  [][(/\ LoadCalled
      /\ \A t \in Loaders : pc[t] = "idle"
      /\ (loadingState.isLoaded \/ loadingState.error # Null))
       => loadingState' = loadingState]_vars

\* C6: at every await point of loadModels and after every return of loadModels
\* or dispose, the age handle and the gender handle are both present or both
\* absent.
C6_AtomicReadiness ==
  (ageModel = NoModel) <=> (genderModel = NoModel)

\* C7: when a load fails, every handle it had constructed has been disposed
\* and both handles of the registry are absent when the error is recorded.
C7_FailedLoadClearsHandles ==
  [][\A t \in Loaders :
       LoadFails(t) => /\ built'[t] \subseteq disposedModels'
                       /\ ageModel' = NoModel
                       /\ genderModel' = NoModel]_vars

\* C8: a load that throws ends in Failed: error is non-null, isLoaded is false
\* and isLoading is false; and whenever a loadModels() call settles,
\* isLoading is false.
C8_ExceptionEndsInFailed ==
  [][\A t \in Loaders :
       /\ LoadFails(t) => /\ loadingState'.error # Null
                          /\ ~loadingState'.isLoaded
                          /\ ~loadingState'.isLoading
       /\ (result'[t] # result[t] /\ result'[t] # "pending")
            => ~loadingState'.isLoading]_vars

\* C9: a load sets isLoaded only after it has completed a warm-up forward
\* pass of the age model and one of the gender model.
C9_LoadedOnlyAfterBothWarmups ==
  [][\A t \in Loaders :
       LoadSucceeds(t) => /\ passes[t] = {"age", "gender"}
                          /\ loadingState'.isLoaded
                          /\ \E a, g \in warmed : a # g]_vars

C9_Witness ==
  \E t \in Loaders : result[t] = "loaded" /\ passes[t] = {"age", "gender"}
                     /\ loadingState.isLoaded

\* the registry is not ready: never loaded, load in progress, load failed, or
\* disposed
RegistryNotReady ==
  \/ ~loadingState.isLoaded
  \/ loadingState.isLoading
  \/ loadingState.error # Null
  \/ (disposes > 0 /\ ageModel = NoModel /\ genderModel = NoModel)

\* C10: whenever the registry is not ready, and in any case after a warm-up
\* failure, a predict() call fails with the not-loaded error and performs no
\* computation.
C10_NotReadyPredictFails ==
  [][(predicts' = predicts + 1 /\ (RegistryNotReady \/ warmupFailed))
       => (predictResult' = "NotLoadedError" /\ predictWork' = {})]_vars

\* C11: after predict() settles, on every exit path, no tensor it created is
\* outstanding.
C11_PredictLeavesNoTensors ==
  (predicts > 0 /\ ppc = "idle") => predictTensors = {}

\* C12: a predict() call that passes the readiness check and fails, at any
\* step from preprocessing on, throws a wrapped 'Prediction failed: <cause>'
\* error and never the raw error.
C12_FailureIsWrapped ==
  /\ predictResult # "RawError"
  /\ predictResult = "PredictionError"
       => \E e \in Thrown \cup {NullDeref} :
            predictError = PredictionErrorMessage(e)

\* C13: without dispose(), the model handles are constructed and assigned at
\* most once, and once the manager is Ready no step writes the handles or the
\* loading state.
C13_InitializedOnce ==
  [][disposes' = 0
       => /\ nextHandle' <= 2
          /\ isInitialized => /\ ageModel' = ageModel
                              /\ genderModel' = genderModel
                              /\ loadingState' = loadingState]_vars

\* a step that is a poll tick of ModelLoader
IsPollTick == modelLoader'.tick # modelLoader.tick

\* C14: a poll tick whose snapshot has isLoaded true or error != null clears
\* the interval, so that no further tick runs for that effect, and calls
\* onLoadComplete with the snapshot's isLoaded.
C14_TerminalTickStopsPolling ==
  [][(/\ IsPollTick
      /\ (modelLoader'.loadingState.isLoaded
            \/ modelLoader'.loadingState.error # Null))
       => /\ modelLoader'.interval = 0
          /\ [effect |-> modelLoader.interval,
              success |-> modelLoader'.loadingState.isLoaded]
               \in modelLoader'.completed]_vars

\* C14, liveness: while ModelLoader stays mounted, a load that has terminated
\* is eventually followed by a tick that reports it.
C14_TerminatedLoadIsReported ==
  \A k \in 1..MaxCalls :
    (/\ modelLoader.interval = k
     /\ \A t \in Loaders : pc[t] = "idle"
     /\ (loadingState.isLoaded \/ loadingState.error # Null))
      ~> (modelLoader.interval # k)

\* the image the last processImageElement call was given
ImageW == imageProcessor.result.originalWidth
ImageH == imageProcessor.result.originalHeight
Drawn  == imageProcessor.result.imageData.drawn
Processed == imageProcessor.calls > 0

Max(a, b) == IF a >= b THEN a ELSE b

\* round-half-up of n/d, for n >= 0 and d > 0
RoundHalfUp(n, d) == (2 * n + d) \div (2 * d)

C17_ZeroDimensionFails ==
  \A w, h \in Dims :
    (imageProcessor.calls > 0 /\ (w = 0 \/ h = 0))
      => ~(/\ imageProcessor.thrown = Null
           /\ imageProcessor.result = processImageElement(w, h))

\* C15: the snapshot an observer holds and the manager's loading state are
\* independent objects: no step changes both, so a step of loadModels()
\* leaves the snapshot as it was and a write to the snapshot leaves the
\* manager's state, and with it every later snapshot, as it was.
C15_SnapshotIsIndependentCopy ==
  [][~(ObserverSnapshot' # ObserverSnapshot /\ loadingState' # loadingState)]_vars

C15_Witness ==
  /\ calls > 0
  /\ ObserverSnapshot.isLoading
  /\ ObserverSnapshot.progress = 100
  /\ loadingState.progress = 90

\* C18: a file is accepted exactly when its size is at most 10*1024*1024
\* bytes and its content type, case-insensitively, is image/jpeg, image/jpg,
\* image/png or image/webp; for a rejected file neither createPreviewCanvas
\* nor processImageFile nor predict is started.
C18_RejectedBeforeDecode ==
  uploader.selected =>
    /\ uploader.accepted <=>
         /\ uploader.file.size <= 10485760
         /\ uploader.file.type \in {"image/jpeg", "image/jpg", "image/png",
                                    "image/webp", "IMAGE/PNG", "Image/Jpeg"}
    /\ ~uploader.accepted => /\ uploader.started = {}
                             /\ uploader.error # Null
                             /\ uploader.pc = "idle"

C18_Witness ==
  /\ uploader.selected
  /\ uploader.file.size = 11534336
  /\ uploader.file.type = "image/jpeg"
  /\ ~uploader.accepted
  /\ uploader.started = {}

\* the RIFF....WEBP signature: RIFF at offset 0 and WEBP at offset 8
isWebP_WithRIFF(b) ==
  /\ ByteAt(b, 0) = 82 /\ ByteAt(b, 1) = 73
  /\ ByteAt(b, 2) = 70 /\ ByteAt(b, 3) = 70
  /\ ByteAt(b, 8) = 87 /\ ByteAt(b, 9) = 69
  /\ ByteAt(b, 10) = 66 /\ ByteAt(b, 11) = 80

\* a request the handler is to answer with 400
C19_Malformed ==
  \/ api.request.kind = "missing"
  \/ /\ api.request.kind = "file"
     /\ \/ api.request.size > 10485760
        \/ api.request.type \notin {"image/jpeg", "image/jpg", "image/png",
                                    "image/webp", "IMAGE/PNG", "Image/Jpeg"}
        \/ /\ ~isPNG(api.request.bytes)
           /\ ~isJPEG(api.request.bytes)
           /\ ~isWebP_WithRIFF(api.request.bytes)

\* C19: POST /api/predict answers 400 for a missing image field, a file over
\* 10 MB, a disallowed content type, or leading bytes that match none of the
\* PNG, JPEG and WEBP (RIFF....WEBP) signatures, and 500 for nothing of that
\* kind.
C19_MalformedGets400 ==
  (api.handled /\ C19_Malformed) => api.response.status = 400

\* C20: for every raw age output, the returned age is
\* round(clamp(raw*100 + 25, 0, 100)): 0 when raw*100 + 25 <= 0, 100 when it
\* is >= 100, and otherwise the nearest integer (a half rounds up); so the
\* age is an integer in 0..100.
C20_AgeIsRoundedClamp ==
  inference.computed =>
    LET d  == inference.raw.d
        x  == 100 * inference.raw.n + 25 * d    \* raw*100 + 25, times d
        a  == inference.age
    IN  /\ a \in 0..100
        /\ x <= 0 => a = 0
        /\ x >= 100 * d => a = 100
        /\ (0 < x /\ x < 100 * d)
             => (2 * a * d - d <= 2 * x /\ 2 * x < 2 * a * d + d)

C20_Witness ==
  /\ inference.computed
  /\ inference.raw = Num(1, 200)
  /\ inference.predictedAge = Num(51, 2)
  /\ inference.age = 26

\* C21: for every gender output [pMale, pFemale], the returned label is male
\* exactly when pMale > pFemale, female otherwise (a tie included), and
\* genderConfidence is the larger of the two probabilities.
C21_GenderIsArgmax ==
  inference.computed =>
    LET m == inference.maleProb
        f == inference.femaleProb
        c == inference.genderConfidence
    IN  /\ inference.gender \in {"male", "female"}
        /\ inference.gender = "male" <=> m.n * f.d > f.n * m.d
        /\ c \in {m, f}
        /\ c.n * m.d >= m.n * c.d
        /\ c.n * f.d >= f.n * c.d

C21_Witness ==
  /\ inference.computed
  /\ inference.maleProb = Num(1, 2)
  /\ inference.femaleProb = Num(1, 2)
  /\ inference.gender = "female"
  /\ inference.genderConfidence = Num(1, 2)

\* the ImageData a new ImageProcessor returns for an image of w x h
FreshImageData(w, h) ==
  LET m == Max(w, h)
  IN  [width |-> 224, height |-> 224, background |-> "transparent",
       beneath |-> << >>,
       drawn |-> IF w = 0 \/ h = 0
                   THEN NothingDrawn
                   ELSE [x |-> Num(224 * m - 224 * w, 2 * m),
                         y |-> Num(224 * m - 224 * h, 2 * m),
                         width |-> Num(224 * w, m),
                         height |-> Num(224 * h, m)]]

\* C22: for any sequence of processImageElement calls on one ImageProcessor,
\* the ImageData returned for an image is the one a new processor returns for
\* it: it depends only on the image, and no drawing of an earlier image
\* survives in it.
C22_NormalizationIsHistoryFree ==
  Processed =>
    /\ imageProcessor.result.imageData = FreshImageData(ImageW, ImageH)
    /\ imageProcessor.result.imageData.beneath = << >>

C22_Witness ==
  /\ imageProcessor.calls = 2
  /\ ImageW = 1 /\ ImageH = 3
  /\ imageProcessor.result.imageData = FreshImageData(1, 3)
  /\ imageProcessor.canvas
       = <<[image |-> <<1, 3>>,
            rect |-> [x |-> Num(224, 3), y |-> Num(0, 1),
                      width |-> Num(224, 3), height |-> Num(224, 1)]]>>

\* C23: after any interleaving of loadModels() and dispose(), isInitialized is
\* true only if the age handle and the gender handle are both non-null.
C23_InitializedImpliesHandles ==
  isInitialized => (ageModel # NoModel /\ genderModel # NoModel)

\* C24: after any sequence of loadModels() and dispose() calls, with no call
\* suspended, the published isLoaded is true exactly when predict() would
\* pass its readiness check.
C24_LoadedIffReady ==
  (\A t \in Loaders : pc[t] = "idle") =>
    (getLoadingState.value.isLoaded <=> PredictReady)

\* C26: when no loadModels() call is in flight, no tensor a load created is
\* outstanding: the warm-up input and both warm-up outputs have been disposed,
\* whether the warm-up succeeded or threw.
C26_LoadLeavesNoTensors ==
  (\A t \in Loaders : pc[t] = "idle") => liveTensors = 0

\* C25: the prediction or error held in the analysis state belongs to the
\* currently selected file, a reset state holds no prediction and no error,
\* and at most one handleImageSelect call is in flight.
C25_ResultBelongsToSelectedFile ==
  LET st == page.analysisState
  IN  /\ st.prediction # 0 => st.prediction = st.file
      /\ st.error # 0 => st.error = st.file
      /\ Cardinality({i \in Images :
                        page.calls[i] \in {"processImageFile", "predict"}})
           <= 1

====
